---- MODULE Spec2Model ----
(***************************************************************************)
(* A model of json_rag_ast_generator.py: ExtractASTDefinitions (the walk   *)
(* from a parsed Python file to a nested dictionary) and                   *)
(* DefinitionRebuilder (the way back to source text), over a small file    *)
(* system.                                                                 *)
(*                                                                         *)
(* Text is a sequence of tokens.  A token is a string standing for one     *)
(* character ("LF", "CR", "SP", "DQ", "BS", ...) or for one lexeme of a    *)
(* line of Python ("def", "class", "if", "pass", a name, "IND" for one     *)
(* indentation unit).  Files hold such sequences as their bytes.           *)
(***************************************************************************)
EXTENDS Integers, Sequences, FiniteSets, TLC

VARIABLES
    fs,     \* the file system: path -> [exists, data]
    held,   \* the value the caller holds between calls (a result it kept)
    ret,    \* what the last call returned or raised
    last,   \* the last call: its name, its arguments and the files before it
    calls,  \* the number of library calls the caller still makes
    procs   \* the writers of the concurrent scenario: pc, buffer, handle

vars == <<fs, held, ret, last, calls, procs>>

(***************************************************************************)
(* Python values.  Every value is a record [t, v]; a dict is the sequence  *)
(* of its [k, v] items in insertion order, a str the sequence of its       *)
(* tokens.                                                                 *)
(***************************************************************************)
None == [t |-> "none", v |-> <<>>]
StrV(s) == [t |-> "str", v |-> s]
IntV(n) == [t |-> "int", v |-> n]
ListV(xs) == [t |-> "list", v |-> xs]
DictV(items) == [t |-> "dict", v |-> items]
BoolV(b) == [t |-> "bool", v |-> b]
\* float("nan"), float("inf") and float("-inf"), by the name JSON text has
\* for them
FloatV(name) == [t |-> "float", v |-> name]
Raise(kind, msg) == [t |-> "raise", v |-> <<kind>> \o msg]

IsDict(d) == d.t = "dict"
IsStr(d) == d.t = "str"
IsRaise(r) == r.t = "raise"

\* key in d
Has(d, key) == \E i \in 1..Len(d.v) : d.v[i].k = key
\* d[key]
Get(d, key) == d.v[CHOOSE i \in 1..Len(d.v) : d.v[i].k = key].v
\* a wrong d[key] = val: a new key goes first
PutFirst(d, key, val) ==
    IF Has(d, key)
    THEN DictV([i \in 1..Len(d.v) |->
                 IF d.v[i].k = key THEN [k |-> key, v |-> val] ELSE d.v[i]])
    ELSE DictV(<<[k |-> key, v |-> val]>> \o d.v)

\* d[key] = val: a new key goes last, an existing key keeps its place
Put(d, key, val) ==
    IF Has(d, key)
    THEN DictV([i \in 1..Len(d.v) |->
                 IF d.v[i].k = key THEN [k |-> key, v |-> val] ELSE d.v[i]])
    ELSE DictV(Append(d.v, [k |-> key, v |-> val]))
\* list(d.values())
Values(d) == [i \in 1..Len(d.v) |-> d.v[i].v]

\* an assignment "name = value" followed by the statements Rest: value is
\* computed once, and Rest continues with the result
Bind(value, Rest(_)) == CHOOSE r \in {Rest(v) : v \in {value}} : TRUE

RECURSIVE ConcatRange(_, _, _)
\* ss[lo] \o ... \o ss[hi], by halving
ConcatRange(ss, lo, hi) ==
    IF lo > hi THEN <<>>
    ELSE IF lo = hi THEN ss[lo]
    ELSE LET mid == (lo + hi) \div 2 IN
         ConcatRange(ss, lo, mid) \o ConcatRange(ss, mid + 1, hi)

\* the concatenation of a sequence of sequences
Concat(ss) == ConcatRange(ss, 1, Len(ss))

\* sep.join(parts)
Join(sep, parts) ==
    Concat([i \in 1..Len(parts) |->
              IF i = 1 THEN parts[i] ELSE sep \o parts[i]])

RECURSIVE SplitRange(_, _, _, _)
\* the pieces of text[lo..hi] between the separators, by halving: a
\* separator ends one piece and starts the next
SplitRange(text, lo, hi, seps) ==
    IF lo > hi THEN << <<>> >>
    ELSE IF lo = hi
         THEN IF text[lo] \in seps THEN << <<>>, <<>> >> ELSE << <<text[lo]>> >>
    ELSE LET mid == (lo + hi) \div 2
             l == SplitRange(text, lo, mid, seps)
             r == SplitRange(text, mid + 1, hi, seps)
         IN SubSeq(l, 1, Len(l) - 1) \o << l[Len(l)] \o r[1] >> \o Tail(r)

\* text.split(sep), for any of the separators seps
Split(text, seps) == SplitRange(text, 1, Len(text), seps)

\* n copies of token tok
Repeat(tok, n) == [i \in 1..n |-> tok]

(***************************************************************************)
(* Text-mode file objects: open(path, "r").read() and                      *)
(* open(path, "w").write(text).                                            *)
(***************************************************************************)
NoFile == [exists |-> FALSE, data |-> <<>>]
File(bytes) == [exists |-> TRUE, data |-> bytes]

\* read() of a file opened with newline=None: "\r\n" and "\r" become "\n"
UniversalNewlines(bs) ==
    Concat([i \in 1..Len(bs) |->
              IF bs[i] = "CR" THEN <<"LF">>
              ELSE IF bs[i] = "LF" /\ i > 1 /\ bs[i - 1] = "CR" THEN <<>>
              ELSE <<bs[i]>>])

\* os.linesep of the platform the library runs on (POSIX)
linesep == <<"LF">>

\* write() to a file opened with newline=None: "\n" becomes os.linesep
WriteNewlines(text) ==
    Concat([i \in 1..Len(text) |->
              IF text[i] = "LF" THEN linesep ELSE <<text[i]>>])

\* a wrong read: a file that is missing reads as an empty one
ReadTextOrEmpty(files, path) ==
    IF files[path].exists
    THEN StrV(UniversalNewlines(files[path].data))
    ELSE StrV(<<>>)

\* with open(path, "r") as f: f.read()
ReadText(files, path) ==
    IF files[path].exists
    THEN StrV(UniversalNewlines(files[path].data))
    ELSE Raise("FileNotFoundError", <<path>>)

\* a wrong write: the text is added to what the file held
WriteTextAppended(files, path, text) ==
    [files EXCEPT ![path] = File(files[path].data \o text)]

\* with open(path, "w") as f: f.write(text)
WriteText(files, path, text) ==
    [files EXCEPT ![path] = File(WriteNewlines(text))]

(***************************************************************************)
(* str.splitlines(): the lines of a text, broken at every line boundary    *)
(* ("\n", "\r", "\r\n", form feed, ...), with no empty line after a final  *)
(* boundary.                                                               *)
(***************************************************************************)
\* the boundaries left once "\r\n" and "\r" are taken as "\n"
LineBoundaries == {"LF", "FF"}

splitlines(text) ==
    LET pieces == Split(UniversalNewlines(text), LineBoundaries) IN
    IF pieces[Len(pieces)] = <<>> THEN SubSeq(pieces, 1, Len(pieces) - 1)
    ELSE pieces

(***************************************************************************)
(* json.dumps(obj, indent=...): the JSON text of a value.  With indent=4   *)
(* every item of a non-empty container is on its own line, indented by one *)
(* unit per nesting level; with indent=None items are separated by ", ".   *)
(* Keys keep the dict's order.  In a string, the quote, the backslash and  *)
(* the control characters are escaped.                                     *)
(***************************************************************************)
Digits == <<"0", "1", "2", "3", "4", "5", "6", "7", "8", "9">>

RECURSIVE Decimal(_)
\* the decimal digits of a natural number
Decimal(n) ==
    IF n < 10 THEN <<Digits[n + 1]>>
    ELSE Decimal(n \div 10) \o <<Digits[(n % 10) + 1]>>

\* the escape of one character of a string
EscapeChar(c) ==
    CASE c = "DQ" -> <<"BS", "DQ">>
      [] c = "BS" -> <<"BS", "BS">>
      [] c = "LF" -> <<"BS", "n">>
      [] c = "CR" -> <<"BS", "r">>
      [] c = "FF" -> <<"BS", "f">>
      [] OTHER -> <<c>>

\* the JSON string literal of a text
EncodeString(text) ==
    <<"DQ">> \o Concat([i \in 1..Len(text) |-> EscapeChar(text[i])]) \o <<"DQ">>

\* what precedes an item at nesting level: a line break and the indentation
ItemBreak(indent, level) ==
    IF indent THEN <<"LF">> \o Repeat("IND", level) ELSE <<>>

\* what separates two items
ItemSeparator(indent, level) ==
    IF indent THEN <<",">> \o ItemBreak(indent, level) ELSE <<",", "SP">>

RECURSIVE Encode(_, _, _)
Encode(val, indent, level) ==
    CASE val.t = "str" -> EncodeString(val.v)
      [] val.t = "int" -> Decimal(val.v)
      [] val.t = "none" -> <<"null">>
      [] val.t = "bool" -> IF val.v THEN <<"true">> ELSE <<"false">>
      [] val.t = "float" -> <<val.v>>
      [] val.t = "list" ->
            IF val.v = <<>> THEN <<"[", "]">>
            ELSE <<"[">> \o ItemBreak(indent, level + 1)
                 \o Join(ItemSeparator(indent, level + 1),
                         [i \in 1..Len(val.v) |-> Encode(val.v[i], indent, level + 1)])
                 \o ItemBreak(indent, level) \o <<"]">>
      [] val.t = "dict" ->
            IF val.v = <<>> THEN <<"{", "}">>
            ELSE <<"{">> \o ItemBreak(indent, level + 1)
                 \o Join(ItemSeparator(indent, level + 1),
                         [i \in 1..Len(val.v) |->
                            EncodeString(val.v[i].k) \o <<":", "SP">>
                            \o Encode(val.v[i].v, indent, level + 1)])
                 \o ItemBreak(indent, level) \o <<"}">>

\* json.dumps(obj) and json.dumps(obj, indent=4)
dumps(obj, indent) == Encode(obj, indent, 0)

(***************************************************************************)
(* json.loads(text): the value of a JSON text, or JSONDecodeError.  A      *)
(* repeated key of an object keeps its first place and its last value.     *)
(* Beyond JSON, the decoder takes NaN, Infinity and -Infinity as numbers.   *)
(***************************************************************************)
JsonConstants == {"NaN", "Infinity", "-Infinity"}
JsonWhitespace == {"SP", "IND", "LF", "CR"}
DecodeFailure == [ok |-> FALSE, val |-> None, next |-> 0]
Decoded(val, next) == [ok |-> TRUE, val |-> val, next |-> next]

RECURSIVE SkipWs(_, _)
SkipWs(t, i) ==
    IF i <= Len(t) /\ t[i] \in JsonWhitespace THEN SkipWs(t, i + 1) ELSE i

\* the character an escape letter stands for ("" when it is no escape)
Unescape(c) ==
    CASE c = "DQ" -> "DQ"
      [] c = "BS" -> "BS"
      [] c = "n" -> "LF"
      [] c = "r" -> "CR"
      [] c = "f" -> "FF"
      [] OTHER -> ""

RECURSIVE BackslashRun(_, _, _)
\* the number of backslashes that end right before position j, none of them
\* before position i
BackslashRun(t, i, j) ==
    IF j > i /\ t[j - 1] = "BS" THEN 1 + BackslashRun(t, i, j - 1) ELSE 0

\* whether position j, in a string that starts at i, is a backslash that
\* starts an escape (it is not itself escaped)
StartsEscape(t, i, j) == t[j] = "BS" /\ BackslashRun(t, i, j) % 2 = 0

\* the first quote from position i on that is not escaped (0 when there
\* is none)
ClosingQuote(t, i) ==
    LET closers == {j \in i..Len(t) :
                      t[j] = "DQ" /\ BackslashRun(t, i, j) % 2 = 0}
    IN IF closers = {} THEN 0
       ELSE CHOOSE j \in closers : \A m \in closers : j <= m

\* the string whose opening quote is right before position i: the scan runs
\* to the first quote that is not escaped, taking each escape as one character
DecodeString(t, i) ==
    LET close == ClosingQuote(t, i)
        Escaped(j) == j > i /\ StartsEscape(t, i, j - 1)
    IN
    IF close = 0 THEN DecodeFailure
    ELSE IF \E j \in i..(close - 1) :
               \/ Escaped(j) /\ Unescape(t[j]) = ""
               \/ ~Escaped(j) /\ t[j] \in {"LF", "CR", "FF"}
         THEN DecodeFailure
    ELSE Decoded(StrV(Concat([n \in 1..(close - i) |->
                     LET j == i + n - 1 IN
                     IF Escaped(j) THEN <<Unescape(t[j])>>
                     ELSE IF StartsEscape(t, i, j) THEN <<>>
                     ELSE <<t[j]>>])),
                 close + 1)

IsDigit(c) == \E d \in 1..10 : Digits[d] = c
DigitValue(c) == (CHOOSE d \in 1..10 : Digits[d] = c) - 1

RECURSIVE DecodeDigits(_, _, _)
DecodeDigits(t, i, acc) ==
    IF i <= Len(t) /\ IsDigit(t[i])
    THEN DecodeDigits(t, i + 1, 10 * acc + DigitValue(t[i]))
    ELSE Decoded(IntV(acc), i)

\* the integer that starts at position i: "0", or a digit other than "0" and
\* the digits after it
DecodeNumber(t, i) ==
    IF t[i] = "0" THEN Decoded(IntV(0), i + 1) ELSE DecodeDigits(t, i, 0)

RECURSIVE DecodeValue(_, _)
RECURSIVE DecodeMembers(_, _, _)
RECURSIVE DecodeElements(_, _, _)

\* the members of an object from position i (a key is due there), after acc
DecodeMembers(t, i, acc) ==
    IF i > Len(t) \/ t[i] # "DQ" THEN DecodeFailure
    ELSE LET key == DecodeString(t, i + 1) IN
         IF ~key.ok THEN DecodeFailure
         ELSE LET c == SkipWs(t, key.next) IN
              IF c > Len(t) \/ t[c] # ":" THEN DecodeFailure
              ELSE LET item == DecodeValue(t, SkipWs(t, c + 1)) IN
                   IF ~item.ok THEN DecodeFailure
                   ELSE LET e == SkipWs(t, item.next)
                            now == Put(acc, key.val.v, item.val)
                        IN
                        IF e > Len(t) THEN DecodeFailure
                        ELSE IF t[e] = "}" THEN Decoded(now, e + 1)
                        ELSE IF t[e] = ","
                             THEN DecodeMembers(t, SkipWs(t, e + 1), now)
                        ELSE DecodeFailure

\* the elements of an array from position i (a value is due there), after acc
DecodeElements(t, i, acc) ==
    LET item == DecodeValue(t, i) IN
    IF ~item.ok THEN DecodeFailure
    ELSE LET e == SkipWs(t, item.next)
             now == Append(acc, item.val)
         IN
         IF e > Len(t) THEN DecodeFailure
         ELSE IF t[e] = "]" THEN Decoded(ListV(now), e + 1)
         ELSE IF t[e] = "," THEN DecodeElements(t, SkipWs(t, e + 1), now)
         ELSE DecodeFailure

\* the value that starts at position i
DecodeValue(t, i) ==
    IF i > Len(t) THEN DecodeFailure
    ELSE IF t[i] = "{"
         THEN LET m == SkipWs(t, i + 1) IN
              IF m <= Len(t) /\ t[m] = "}" THEN Decoded(DictV(<<>>), m + 1)
              ELSE DecodeMembers(t, m, DictV(<<>>))
    ELSE IF t[i] = "["
         THEN LET m == SkipWs(t, i + 1) IN
              IF m <= Len(t) /\ t[m] = "]" THEN Decoded(ListV(<<>>), m + 1)
              ELSE DecodeElements(t, m, <<>>)
    ELSE IF t[i] = "DQ" THEN DecodeString(t, i + 1)
    ELSE IF IsDigit(t[i]) THEN DecodeNumber(t, i)
    ELSE IF t[i] = "null" THEN Decoded(None, i + 1)
    ELSE IF t[i] \in {"true", "false"} THEN Decoded(BoolV(t[i] = "true"), i + 1)
    ELSE IF t[i] \in JsonConstants THEN Decoded(FloatV(t[i]), i + 1)
    ELSE DecodeFailure

\* a wrong decoder: what follows the first value is not looked at
loadsFirstValue(text) ==
    LET r == DecodeValue(text, SkipWs(text, 1)) IN
    IF r.ok THEN r.val ELSE Raise("JSONDecodeError", <<>>)

\* json.loads(text): the value, or the JSONDecodeError raised
loads(text) ==
    LET r == DecodeValue(text, SkipWs(text, 1)) IN
    IF r.ok /\ SkipWs(text, r.next) > Len(text) THEN r.val
    ELSE Raise("JSONDecodeError", <<>>)

(***************************************************************************)
(* ast.parse(): the parser of the Python subset the model draws its source *)
(* files from.  A physical line is IND^k followed by one statement:        *)
(*    def NAME | async def NAME | class NAME        a definition header    *)
(*    if | with                                     a compound statement   *)
(*    pass | x = 1 | raise NAME                     a simple statement     *)
(*                                    ("raise NAME" for raise NAME("boom")) *)
(*    DQ c ... c DQ                                 a bare string literal  *)
(* or is blank, a form feed ("FF") or a comment ("#c").  A header owns    *)
(* the following lines indented deeper than it; it is an error for it to   *)
(* own none, unless its body is written on its own line ("def f(): pass":  *)
(* a header and "pass").                                                   *)
(***************************************************************************)
Names == {"f", "g", "A"}
DefKeywords == {"def", "async def", "class"}
CompoundKeywords == {"if", "with"}
Raisable == {"ValueError", "SystemExit"}
StrChars == {"SP", "d"}

KindOf == [kw \in DefKeywords \cup CompoundKeywords |->
             CASE kw = "def" -> "FunctionDef"
               [] kw = "async def" -> "AsyncFunctionDef"
               [] kw = "class" -> "ClassDef"
               [] kw = "if" -> "If"
               [] kw = "with" -> "With"]

\* the lines the tokenizer numbers: broken at "\n", "\r" and "\r\n"
PhysicalLines(text) == Split(UniversalNewlines(text), {"LF"})

RECURSIVE Indent(_)
\* the number of indentation units a line starts with
Indent(line) ==
    IF line # <<>> /\ line[1] = "IND" THEN 1 + Indent(Tail(line)) ELSE 0

\* the line without its indentation
Stmt(line) == SubSeq(line, Indent(line) + 1, Len(line))

\* a line the tokenizer skips: blank (a form feed is white space), or a
\* comment
IsBlank(line) == Stmt(line) \in {<<>>, <<"#c">>, <<"FF">>}

IsStringLiteral(st) ==
    /\ Len(st) >= 2
    /\ st[1] = "DQ" /\ st[Len(st)] = "DQ"
    /\ \A i \in 2..(Len(st) - 1) : st[i] \in StrChars

IsHeader(st) ==
    \/ Len(st) = 2 /\ st[1] \in DefKeywords /\ st[2] \in Names
    \/ Len(st) = 1 /\ st[1] \in CompoundKeywords

\* a header with its body on the same line
IsInline(st) ==
    /\ Len(st) >= 2
    /\ st[Len(st)] = "pass"
    /\ IsHeader(SubSeq(st, 1, Len(st) - 1))

IsSimple(st) ==
    \/ st = <<"pass">>
    \/ st = <<"x = 1">>
    \/ Len(st) = 2 /\ st[1] = "raise" /\ st[2] \in Raisable
    \/ IsStringLiteral(st)

\* the AST node of a simple statement on line n
SimpleNode(st, n) ==
    [kind |-> IF IsStringLiteral(st) THEN "Expr"
              ELSE IF st[1] = "raise" THEN "Raise"
              ELSE IF st[1] = "pass" THEN "Pass" ELSE "Assign",
     name |-> IF st[1] = "raise" THEN st[2] ELSE "",
     value |-> IF IsStringLiteral(st) THEN SubSeq(st, 2, Len(st) - 1) ELSE <<>>,
     body |-> <<>>,
     lineno |-> n,
     end_lineno |-> n]

\* the AST node of a header on line n with the statements of its block
BlockNode(st, n, body) ==
    [kind |-> KindOf[st[1]],
     name |-> IF st[1] \in DefKeywords THEN st[2] ELSE "",
     value |-> <<>>,
     body |-> body,
     lineno |-> n,
     end_lineno |-> body[Len(body)].end_lineno]

RECURSIVE NextLine(_, _)
\* the first line from i on that is not skipped (Len + 1 when there is none)
NextLine(ls, i) ==
    IF i > Len(ls) THEN i
    ELSE IF IsBlank(ls[i]) THEN NextLine(ls, i + 1) ELSE i

SyntaxErrorAt(n) == [ok |-> FALSE, nodes |-> <<>>, next |-> n]

RECURSIVE ParseBlock(_, _, _, _)
\* the statements indented by exactly ind from line i on, after acc; stops
\* at the first line indented less
ParseBlock(ls, i, ind, acc) ==
    LET n == NextLine(ls, i) IN
    IF n > Len(ls) THEN [ok |-> TRUE, nodes |-> acc, next |-> n]
    ELSE
    LET k == Indent(ls[n])
        st == Stmt(ls[n])
    IN
    IF k < ind THEN [ok |-> TRUE, nodes |-> acc, next |-> n]
    ELSE IF k > ind THEN SyntaxErrorAt(n)
    ELSE IF IsSimple(st)
         THEN ParseBlock(ls, n + 1, ind, Append(acc, SimpleNode(st, n)))
    ELSE IF IsInline(st)
         THEN ParseBlock(ls, n + 1, ind,
                         Append(acc, BlockNode(st, n, <<SimpleNode(<<"pass">>, n)>>)))
    ELSE IF IsHeader(st)
         THEN LET b == NextLine(ls, n + 1) IN
              IF b > Len(ls) \/ Indent(ls[b]) <= ind THEN SyntaxErrorAt(n)
              ELSE LET body == ParseBlock(ls, b, Indent(ls[b]), <<>>) IN
                   IF ~body.ok THEN body
                   ELSE ParseBlock(ls, body.next, ind,
                                   Append(acc, BlockNode(st, n, body.nodes)))
    ELSE SyntaxErrorAt(n)

\* a text that is one expression statement: a dict or list display, a
\* string or a number, over one line or several.  Every JSON text that does
\* not start with white space is such an expression (null, true, NaN, ...
\* read as names).
IsExpression(source) ==
    /\ source # <<>>
    /\ source[1] \notin JsonWhitespace
    /\ ~IsRaise(loads(source))

\* ast.parse(source): the Module node, or SyntaxError
parse(source) ==
    LET r == ParseBlock(PhysicalLines(source), 1, 0, <<>>) IN
    IF r.ok
    THEN [ok |-> TRUE,
          tree |-> [kind |-> "Module", name |-> "", value |-> <<>>,
                    body |-> r.nodes, lineno |-> 0, end_lineno |-> 0]]
    ELSE IF IsExpression(source)
    THEN [ok |-> TRUE,
          tree |-> [kind |-> "Module", name |-> "", value |-> <<>>,
                    body |-> <<[kind |-> "Expr", name |-> "", value |-> <<>>,
                                body |-> <<>>, lineno |-> 1,
                                end_lineno |-> Len(PhysicalLines(source))]>>,
                    lineno |-> 0, end_lineno |-> 0]]
    ELSE [ok |-> FALSE, line |-> r.next]

(***************************************************************************)
(* ast.unparse(): source text regenerated from a node.  Statements are     *)
(* laid out one per line, "\n" and the indentation before each; a nested   *)
(* definition gets one more "\n" before it (a blank line); a docstring is  *)
(* written in triple double quotes, any other string literal in single     *)
(* quotes; comments and blank lines of the original are gone.              *)
(***************************************************************************)
IsDef(node) == node.kind \in {"FunctionDef", "AsyncFunctionDef", "ClassDef"}
IsFunction(node) == node.kind \in {"FunctionDef", "AsyncFunctionDef"}
IsClass(node) == node.kind = "ClassDef"

\* the keyword a block node was read from
KeywordOf(node) ==
    CHOOSE kw \in DefKeywords \cup CompoundKeywords : KindOf[kw] = node.kind

\* whether the body of node starts with a docstring
HasDocstringNode(node) ==
    /\ node.kind \in {"FunctionDef", "AsyncFunctionDef", "ClassDef", "Module"}
    /\ node.body # <<>>
    /\ node.body[1].kind = "Expr"

RECURSIVE UnparseStmt(_, _, _)
\* the text of node at indentation depth; doc: it is its parent's docstring
UnparseStmt(node, depth, doc) ==
    CASE node.kind = "Pass" -> <<"pass">>
      [] node.kind = "Assign" -> <<"x = 1">>
      [] node.kind = "Raise" -> <<"raise", node.name>>
      [] node.kind = "Expr" ->
            IF doc THEN <<"DQ", "DQ", "DQ">> \o node.value \o <<"DQ", "DQ", "DQ">>
            ELSE <<"SQ">> \o node.value \o <<"SQ">>
      [] OTHER ->
            (IF IsDef(node) THEN <<KeywordOf(node), node.name>>
             ELSE <<KeywordOf(node)>>)
            \o Concat([i \in 1..Len(node.body) |->
                  (IF IsDef(node.body[i]) THEN <<"LF">> ELSE <<>>)
                  \o <<"LF">> \o Repeat("IND", depth + 1)
                  \o UnparseStmt(node.body[i], depth + 1,
                                 i = 1 /\ HasDocstringNode(node))])

\* ast.unparse(node)
unparse(node) == UnparseStmt(node, 0, FALSE)

(***************************************************************************)
(* ast.get_docstring(node), which cleans the literal with inspect.cleandoc *)
(***************************************************************************)
RECURSIVE lstrip(_)
\* line.lstrip()
lstrip(line) ==
    IF line # <<>> /\ line[1] = "SP" THEN lstrip(Tail(line)) ELSE line

RECURSIVE DropLastEmpty(_)
\* while lines and not lines[-1]: lines.pop()
DropLastEmpty(lines) ==
    IF lines # <<>> /\ lines[Len(lines)] = <<>>
    THEN DropLastEmpty(SubSeq(lines, 1, Len(lines) - 1)) ELSE lines

RECURSIVE DropFirstEmpty(_)
\* while lines and not lines[0]: lines.pop(0)
DropFirstEmpty(lines) ==
    IF lines # <<>> /\ lines[1] = <<>>
    THEN DropFirstEmpty(Tail(lines)) ELSE lines

\* inspect.cleandoc(doc)
cleandoc(doc) ==
    LET lines == Split(doc, {"LF"})
        indents == {Len(lines[i]) - Len(lstrip(lines[i])) :
                      i \in {j \in 2..Len(lines) : lstrip(lines[j]) # <<>>}}
        hasMargin == indents # {}
        margin == CHOOSE m \in indents : \A n \in indents : m <= n
        cut == [i \in 1..Len(lines) |->
                  IF i = 1 THEN lstrip(lines[1])
                  ELSE IF hasMargin
                       THEN SubSeq(lines[i], margin + 1, Len(lines[i]))
                       ELSE lines[i]]
    IN Join(<<"LF">>, DropFirstEmpty(DropLastEmpty(cut)))

\* ast.get_docstring(node): None, or the cleaned text of the leading literal
get_docstring(node) ==
    IF node.body # <<>> /\ node.body[1].kind = "Expr"
    THEN StrV(cleandoc(node.body[1].value))
    ELSE None

\* Python's truth value of a docstring result: None and "" are false
Truthy(val) == val.t = "str" /\ val.v # <<>>

(***************************************************************************)
(* ExtractASTDefinitions                                                   *)
(***************************************************************************)
\* the children of node's body that are of the given kinds, processed
RECURSIVE process_function(_)
RECURSIVE process_class(_)

\* process_node for a class or function node (the Module case is process_module)
process_node(node) ==
    IF IsClass(node) THEN process_class(node)
    ELSE IF IsFunction(node) THEN process_function(node)
    ELSE DictV(<<>>)

RECURSIVE AppendFunctionsReversed(_, _)
\* a wrong loop: every function is put in front of the ones found before it
AppendFunctionsReversed(body, i) ==
    IF i > Len(body) THEN <<>>
    ELSE AppendFunctionsReversed(body, i + 1)
         \o (IF IsFunction(body[i]) THEN <<process_node(body[i])>> ELSE <<>>)

RECURSIVE AppendFunctions(_, _)
\* the appends to output["functions"] made by the loop over node.body
AppendFunctions(body, i) ==
    IF i > Len(body) THEN <<>>
    ELSE (IF IsFunction(body[i]) THEN <<process_node(body[i])>> ELSE <<>>)
         \o AppendFunctions(body, i + 1)

RECURSIVE AppendClasses(_, _)
\* the appends to output["classes"] made by the loop over node.body
AppendClasses(body, i) ==
    IF i > Len(body) THEN <<>>
    ELSE (IF IsClass(body[i]) THEN <<process_node(body[i])>> ELSE <<>>)
         \o AppendClasses(body, i + 1)

\* a wrong record: the two line numbers change places
DefinitionRecordSwapped(node) ==
    DictV(<<[k |-> <<"functionDefinition">>, v |-> StrV(unparse(node))],
            [k |-> <<"functions">>, v |-> ListV(AppendFunctions(node.body, 1))],
            [k |-> <<"summary">>, v |-> ListV(<<>>)],
            [k |-> <<"classes">>, v |-> ListV(AppendClasses(node.body, 1))],
            [k |-> <<"startLine">>, v |-> IntV(node.end_lineno)],
            [k |-> <<"endLine">>, v |-> IntV(node.lineno)]>>)

\* the record both process_class and process_function build
DefinitionRecord(node) ==
    LET docstring == get_docstring(node) IN
    DictV(<<[k |-> <<"functionDefinition">>, v |-> StrV(unparse(node))]>>
          \o (IF Truthy(docstring)
              THEN <<[k |-> <<"docstring">>, v |-> docstring]>> ELSE <<>>)
          \o <<[k |-> <<"functions">>, v |-> ListV(AppendFunctions(node.body, 1))],
               [k |-> <<"summary">>, v |-> ListV(<<>>)],
               [k |-> <<"classes">>, v |-> ListV(AppendClasses(node.body, 1))],
               [k |-> <<"startLine">>, v |-> IntV(node.lineno)],
               [k |-> <<"endLine">>, v |-> IntV(node.end_lineno)]>>)

process_class(node) == DefinitionRecord(node)

process_function(node) == DefinitionRecord(node)

RECURSIVE ModuleMapKeepFirst(_, _, _)
\* a wrong loop: a name that is in the map already is left as it is
ModuleMapKeepFirst(body, i, acc) ==
    IF i > Len(body) THEN acc
    ELSE IF IsDef(body[i]) /\ ~Has(acc, <<body[i].name>>)
         THEN ModuleMapKeepFirst(body, i + 1,
                                 Put(acc, <<body[i].name>>, process_node(body[i])))
         ELSE ModuleMapKeepFirst(body, i + 1, acc)

RECURSIVE ModuleMap(_, _, _)
\* the loop of process_module: output["module"][item.name] = process_node(item)
ModuleMap(body, i, acc) ==
    IF i > Len(body) THEN acc
    ELSE IF IsDef(body[i])
         THEN ModuleMap(body, i + 1,
                        Put(acc, <<body[i].name>>, process_node(body[i])))
         ELSE ModuleMap(body, i + 1, acc)

\* process_module(node, code_string, file_path)
process_module(node, code_string, file_path) ==
    DictV(<<[k |-> <<"summary">>, v |-> ListV(<<>>)]>>
          \o (IF file_path # "" THEN <<[k |-> <<"file">>, v |-> StrV(<<file_path>>)]>>
              ELSE <<>>)
          \o <<[k |-> <<"module">>, v |-> ModuleMap(node.body, 1, DictV(<<>>))],
               [k |-> <<"startLine">>, v |-> IntV(1)],
               [k |-> <<"endLine">>, v |-> IntV(Len(splitlines(code_string)))]>>)

\* extract_all_definitions(file_path): the dictionary, or the exception raised
extract_all_definitions(files, file_path) ==
    Bind(ReadText(files, file_path), LAMBDA file_contents :
    IF IsRaise(file_contents) THEN file_contents
    ELSE Bind(parse(file_contents.v), LAMBDA module :
         IF ~module.ok THEN Raise("SyntaxError", <<file_path>>)
         ELSE process_module(module.tree, file_contents.v, file_path)))

(***************************************************************************)
(* DefinitionRebuilder                                                     *)
(***************************************************************************)
\* whether the tokens of key occur in text, one after the other
IsSubstring(key, text) ==
    \E i \in 0..(Len(text) - Len(key)) : SubSeq(text, i + 1, i + Len(key)) = key

\* Python's `key in data` for a string key: "yes", "no", or "TypeError"
In(key, data) ==
    CASE data.t = "dict" -> IF Has(data, key) THEN "yes" ELSE "no"
      [] data.t = "list" ->
            IF \E i \in 1..Len(data.v) : data.v[i].t = "str" /\ data.v[i].v = key
            THEN "yes" ELSE "no"
      [] data.t = "str" -> IF IsSubstring(key, data.v) THEN "yes" ELSE "no"
      [] OTHER -> "TypeError"

\* d.get("startLine", 0)
StartLineKey(d) ==
    IF Has(d, <<"startLine">>) THEN Get(d, <<"startLine">>).v ELSE 0

RECURSIVE InsertSortedBeforeTies(_, _)
\* a wrong insertion: d goes before the entries whose key equals its own
InsertSortedBeforeTies(sorted, d) ==
    IF sorted = <<>> THEN <<d>>
    ELSE IF StartLineKey(sorted[Len(sorted)]) < StartLineKey(d)
         THEN Append(sorted, d)
         ELSE Append(InsertSortedBeforeTies(SubSeq(sorted, 1, Len(sorted) - 1), d),
                     sorted[Len(sorted)])

RECURSIVE InsertSorted(_, _)
\* d put into the sorted list after every entry whose key is not greater
InsertSorted(sorted, d) ==
    IF sorted = <<>> THEN <<d>>
    ELSE IF StartLineKey(sorted[Len(sorted)]) <= StartLineKey(d)
         THEN Append(sorted, d)
         ELSE Append(InsertSorted(SubSeq(sorted, 1, Len(sorted) - 1), d),
                     sorted[Len(sorted)])

RECURSIVE SortFrom(_, _, _)
SortFrom(defs, i, acc) ==
    IF i > Len(defs) THEN acc
    ELSE SortFrom(defs, i + 1, InsertSorted(acc, defs[i]))

\* sorted(defs, key=lambda d: d.get("startLine", 0)): ascending and stable
SortedByStartLine(defs) == SortFrom(defs, 1, <<>>)

\* a wrong choice: the legacy field is looked at first
SegmentLegacyFirst(d) ==
    IF Has(d, <<"defString">>) THEN <<Get(d, <<"defString">>).v>>
    ELSE IF Has(d, <<"functionDefinition">>) THEN <<Get(d, <<"functionDefinition">>).v>>
    ELSE <<>>

\* what one entry d appends to rebuilt_lines
Segment(d) ==
    IF Has(d, <<"functionDefinition">>) THEN <<Get(d, <<"functionDefinition">>).v>>
    ELSE IF Has(d, <<"defString">>) THEN <<Get(d, <<"defString">>).v>>
    ELSE <<>>

\* whether the entries of a module map can be sorted and joined: the sort
\* keys of two or more entries are compared, so each is an int, and join()
\* takes strings only
WellTyped(defs) ==
    \A i \in 1..Len(defs) :
       /\ (Len(defs) > 1 /\ Has(defs[i], <<"startLine">>))
             => Get(defs[i], <<"startLine">>).t = "int"
       /\ Has(defs[i], <<"functionDefinition">>)
             => Get(defs[i], <<"functionDefinition">>).t = "str"
       /\ (~Has(defs[i], <<"functionDefinition">>) /\ Has(defs[i], <<"defString">>))
             => Get(defs[i], <<"defString">>).t = "str"

\* the rebuild from decoded data
RebuildData(data) ==
    IF In(<<"module">>, data) = "TypeError" THEN Raise("TypeError", <<>>)
    ELSE IF In(<<"module">>, data) = "yes"
    THEN IF data.t # "dict" THEN Raise("TypeError", <<>>)
         ELSE IF Get(data, <<"module">>).t # "dict"
                 \/ \E i \in 1..Len(Get(data, <<"module">>).v) :
                       Get(data, <<"module">>).v[i].v.t # "dict"
         THEN Raise("AttributeError", <<>>)
         ELSE IF ~WellTyped(Values(Get(data, <<"module">>)))
         THEN Raise("TypeError", <<>>)
         ELSE LET defs == Values(Get(data, <<"module">>))
                  defs_sorted == SortedByStartLine(defs)
              IN StrV(Join(<<"LF", "LF">>,
                           Concat([i \in 1..Len(defs_sorted) |->
                                     Segment(defs_sorted[i])])))
    ELSE IF data.t # "dict"
         THEN IF In(<<"functionDefinition">>, data) = "yes"
                 \/ In(<<"defString">>, data) = "yes"
              THEN Raise("TypeError", <<>>)
              ELSE StrV(<<>>)
         ELSE IF ~WellTyped(<<data>>) THEN Raise("TypeError", <<>>)
              ELSE StrV(Join(<<"LF", "LF">>, Segment(data)))

\* rebuild_from_json(json_string): the text, or the exception raised
rebuild_from_json(json_string) ==
    Bind(loads(json_string), LAMBDA data :
    IF IsRaise(data) THEN data ELSE RebuildData(data))

(***************************************************************************)
(* compile() and exec() of rebuilt text in a fresh namespace.  Running a   *)
(* module binds each function without running its body, runs the body of   *)
(* each class and of each compound statement, and stops at the first       *)
(* raise.  SystemExit derives from BaseException and not from Exception.   *)
(***************************************************************************)
ExceptionClasses == {"SyntaxError", "ValueError", "RuntimeError", "TypeError",
                     "AttributeError", "JSONDecodeError", "FileNotFoundError"}

\* a wrong handler: "except BaseException"
IsBaseException(kind) == kind \in ExceptionClasses \cup {"SystemExit"}

\* isinstance(e, Exception)
IsException(kind) == kind \in ExceptionClasses

RECURSIVE Run(_, _, _)
\* the statements of body from i on, run in namespace ns
Run(body, i, ns) ==
    IF i > Len(body) THEN [raised |-> "", ns |-> ns]
    ELSE LET node == body[i] IN
         IF node.kind = "Raise" THEN [raised |-> node.name, ns |-> ns]
         ELSE IF IsFunction(node)
              THEN Run(body, i + 1, Put(ns, <<node.name>>, StrV(<<"<function>">>)))
         ELSE IF IsClass(node)
              THEN LET inner == Run(node.body, 1, DictV(<<>>)) IN
                   IF inner.raised # "" THEN [raised |-> inner.raised, ns |-> ns]
                   ELSE Run(body, i + 1, Put(ns, <<node.name>>, StrV(<<"<class>">>)))
         ELSE IF node.kind \in {"If", "With"}
              THEN LET inner == Run(node.body, 1, ns) IN
                   IF inner.raised # "" THEN inner
                   ELSE Run(body, i + 1, inner.ns)
         ELSE IF node.kind = "Assign"
              THEN Run(body, i + 1, Put(ns, <<"x">>, IntV(1)))
         ELSE Run(body, i + 1, ns)

\* compile(source_code, "<reconstructed>", "exec") then exec(code, namespace):
\* the namespace, or the exception that leaves the two calls
CompileAndExec(source_code) ==
    Bind(parse(UniversalNewlines(source_code)), LAMBDA module :
    IF ~module.ok THEN Raise("SyntaxError", <<"invalid syntax">>)
    ELSE Bind(Run(module.tree.body, 1,
                  DictV(<<[k |-> <<"__builtins__">>, v |-> StrV(<<"<module>">>)]>>)),
              LAMBDA r :
              IF r.raised # "" THEN Raise(r.raised, <<"boom">>) ELSE r.ns))

\* the message str(e) of a raised exception
Message(exc) == Tail(exc.v)
KindOfRaise(exc) == exc.v[1]

\* a wrong handler: the rebuild is inside the try block too
execute_rebuiltAllWrapped(json_string) ==
    Bind(rebuild_from_json(json_string), LAMBDA source_code :
    Bind(IF IsRaise(source_code) THEN source_code
         ELSE CompileAndExec(source_code.v), LAMBDA r :
         IF IsRaise(r) /\ IsException(KindOfRaise(r))
         THEN Raise("RuntimeError",
                    <<"Error executing rebuilt source code: ">> \o Message(r))
         ELSE r))

\* execute_rebuilt(json_string): the namespace, or the exception raised
execute_rebuilt(json_string) ==
    Bind(rebuild_from_json(json_string), LAMBDA source_code :
    IF IsRaise(source_code) THEN source_code
    ELSE Bind(CompileAndExec(source_code.v), LAMBDA r :
         IF IsRaise(r) /\ IsException(KindOfRaise(r))
         THEN Raise("RuntimeError",
                    <<"Error executing rebuilt source code: ">> \o Message(r))
         ELSE r))

\* load_ast_from_json(file_path_in): the dictionary, or the exception raised
load_ast_from_json(files, file_path_in) ==
    Bind(ReadText(files, file_path_in), LAMBDA json_ast :
    IF IsRaise(json_ast) THEN json_ast ELSE loads(json_ast.v))

\* open(name, "r") of a path held in decoded data
ReadNamed(files, name) ==
    IF name.t # "str" THEN Raise("TypeError", <<>>)
    ELSE IF Len(name.v) = 1 /\ name.v[1] \in DOMAIN files
         THEN ReadText(files, name.v[1])
         ELSE Raise("FileNotFoundError", name.v)

\* rebuild_from_dict_or_json(data, output_file_path): the files afterwards
\* and the text returned or the exception raised
rebuild_from_dict_or_json(files, arg, output_file_path) ==
    Bind(IF IsStr(arg) THEN loads(arg.v) ELSE arg, LAMBDA data :
    IF IsRaise(data) THEN [files |-> files, ret |-> data]
    ELSE IF In(<<"file">>, data) = "TypeError"
         THEN [files |-> files, ret |-> Raise("TypeError", <<>>)]
    ELSE IF In(<<"file">>, data) = "yes"
         THEN IF data.t # "dict"
              THEN [files |-> files, ret |-> Raise("TypeError", <<>>)]
              ELSE Bind(ReadNamed(files, Get(data, <<"file">>)), LAMBDA original_source :
                   IF IsRaise(original_source)
                   THEN [files |-> files, ret |-> original_source]
                   ELSE [files |-> WriteText(files, output_file_path, original_source.v),
                         ret |-> original_source])
    ELSE Bind(rebuild_from_json(dumps(data, FALSE)), LAMBDA source_code :
         IF IsRaise(source_code) THEN [files |-> files, ret |-> source_code]
         ELSE [files |-> WriteText(files, output_file_path, source_code.v),
               ret |-> source_code]))

\* get_ast_as_dict(file_path)
get_ast_as_dict(files, file_path) == extract_all_definitions(files, file_path)

\* get_ast_as_json(file_path): the JSON text, or the exception raised
get_ast_as_json(files, file_path) ==
    Bind(extract_all_definitions(files, file_path), LAMBDA result_dict :
    IF IsRaise(result_dict) THEN result_dict
    ELSE StrV(dumps(result_dict, TRUE)))

\* a wrong order: the output is opened for writing before the input is read
save_ast_as_jsonOpenFirst(files, file_path_in, file_path_out) ==
    Bind(WriteText(files, file_path_out, <<>>), LAMBDA opened :
    Bind(extract_all_definitions(opened, file_path_in), LAMBDA result_dict :
    IF IsRaise(result_dict) THEN [files |-> opened, ret |-> result_dict]
    ELSE Bind(dumps(result_dict, TRUE), LAMBDA json_ast :
         [files |-> WriteText(opened, file_path_out, json_ast), ret |-> None])))

\* save_ast_as_json(file_path_in, file_path_out): the files afterwards and
\* None or the exception raised
save_ast_as_json(files, file_path_in, file_path_out) ==
    Bind(extract_all_definitions(files, file_path_in), LAMBDA result_dict :
    IF IsRaise(result_dict) THEN [files |-> files, ret |-> result_dict]
    ELSE Bind(dumps(result_dict, TRUE), LAMBDA json_ast :
         [files |-> WriteText(files, file_path_out, json_ast), ret |-> None]))

(***************************************************************************)
(* The library in use: one caller, one call at a time.  A call reads and   *)
(* writes fs and leaves its result in ret; the caller keeps in held the    *)
(* structure or JSON text an extraction or a load returned, and passes it  *)
(* to the rebuilder.  calls is the number of calls the caller still makes. *)
(***************************************************************************)
Paths == {"a.py", "out"}

MaxCalls == 3

NoCall == [op |-> "", inp |-> "", out |-> "", arg |-> None,
           pre |-> [p \in Paths |-> NoFile]]

\* the record of a call: its name, its arguments and the files it found
Call(op, inp, out, arg) ==
    [op |-> op, inp |-> inp, out |-> out, arg |-> arg, pre |-> fs]

\* what the caller holds after a call that returns a structure or JSON text
Kept(result) == IF IsRaise(result) THEN held ELSE result

\* a wrong call: the file is opened in a mode that creates it ("a+")
GetAstAsDictCreating ==
    \E p \in Paths :
       \E r \in {get_ast_as_dict(fs, p)} :
          /\ calls > 0
          /\ calls' = calls - 1
          /\ ret' = r
          /\ held' = Kept(r)
          /\ last' = Call("get_ast_as_dict", p, "", None)
          /\ fs' = [fs EXCEPT ![p] = File(fs[p].data)]
          /\ UNCHANGED procs

GetAstAsDict ==
    \E p \in Paths :
       \E r \in {get_ast_as_dict(fs, p)} :
          /\ calls > 0
          /\ calls' = calls - 1
          /\ ret' = r
          /\ held' = Kept(r)
          /\ last' = Call("get_ast_as_dict", p, "", None)
          /\ UNCHANGED <<fs, procs>>

GetAstAsJson ==
    \E p \in Paths :
       \E r \in {get_ast_as_json(fs, p)} :
          /\ calls > 0
          /\ calls' = calls - 1
          /\ ret' = r
          /\ held' = Kept(r)
          /\ last' = Call("get_ast_as_json", p, "", None)
          /\ UNCHANGED <<fs, procs>>

SaveAstAsJson ==
    \E i \in Paths, o \in Paths :
       \E r \in {save_ast_as_json(fs, i, o)} :
          /\ calls > 0
          /\ calls' = calls - 1
          /\ fs' = r.files
          /\ ret' = r.ret
          /\ last' = Call("save_ast_as_json", i, o, None)
          /\ UNCHANGED <<held, procs>>

LoadAstFromJson ==
    \E p \in Paths :
       \E r \in {load_ast_from_json(fs, p)} :
          /\ calls > 0
          /\ calls' = calls - 1
          /\ ret' = r
          /\ held' = Kept(r)
          /\ last' = Call("load_ast_from_json", p, "", None)
          /\ UNCHANGED <<fs, procs>>

\* the JSON text the caller passes for what it holds: a text as it is, a
\* structure through json.dumps(data)
JsonTexts(val) ==
    IF IsStr(val) THEN {val}
    ELSE IF IsDict(val) THEN {StrV(dumps(val, FALSE))} ELSE {}

RebuildFromJson ==
    \E js \in JsonTexts(held) :
       /\ calls > 0
       /\ calls' = calls - 1
       /\ ret' = rebuild_from_json(js.v)
       /\ last' = Call("rebuild_from_json", "", "", js)
       /\ UNCHANGED <<fs, held, procs>>

ExecuteRebuilt ==
    \E js \in JsonTexts(held) :
       /\ calls > 0
       /\ calls' = calls - 1
       /\ ret' = execute_rebuilt(js.v)
       /\ last' = Call("execute_rebuilt", "", "", js)
       /\ UNCHANGED <<fs, held, procs>>

RebuildFromDictOrJson ==
    \E o \in Paths, data \in {held} \cup JsonTexts(held) :
       /\ calls > 0
       /\ data.t \in {"dict", "str"}
       /\ \E r \in {rebuild_from_dict_or_json(fs, data, o)} :
             /\ calls' = calls - 1
             /\ fs' = r.files
             /\ ret' = r.ret
             /\ last' = Call("rebuild_from_dict_or_json", "", o, data)
             /\ UNCHANGED <<held, procs>>

(***************************************************************************)
(* Source files.  Render lays lines out as bytes: the indentation, the     *)
(* statement and the line ending of each.                                  *)
(***************************************************************************)
Line(ind, st) == [ind |-> ind, st |-> st]

Render(lines, eol) ==
    Concat([i \in 1..Len(lines) |->
              Repeat("IND", lines[i].ind) \o lines[i].st \o eol])

\* the files the file-flow scenarios start from: empty; one function with
\* "\n", with "\r\n" and with "\r" line endings; a class with a docstring and
\* a function, the last line unterminated; a header without a body
FlowSources ==
    LET fn == <<Line(0, <<"def", "f">>), Line(1, <<"pass">>)>>
        cls == <<Line(0, <<"x = 1">>), Line(0, <<"class", "A">>),
                 Line(1, <<"DQ", "d", "DQ">>), Line(1, <<"def", "g">>)>>
    IN { <<>>,
         Render(fn, <<"LF">>),
         Render(fn, <<"CR", "LF">>),
         Render(fn, <<"CR">>),
         Render(cls, <<"LF">>) \o <<"IND", "IND", "pass">>,
         Render(<<Line(0, <<"def", "f">>)>>, <<"LF">>) }

\* what the output path may hold before the first call
Leftover == <<"x = 1", "LF", "x = 1", "LF", "x = 1", "LF">>

Init ==
    /\ fs \in {[p \in Paths |-> IF p = "a.py" THEN File(src) ELSE out] :
                  src \in FlowSources, out \in {NoFile, File(Leftover)}}
    /\ held = None
    /\ ret = None
    /\ last = NoCall
    /\ calls = MaxCalls
    /\ procs = <<>>

Next ==
    \/ GetAstAsDict
    \/ GetAstAsJson
    \/ SaveAstAsJson
    \/ LoadAstFromJson
    \/ RebuildFromJson
    \/ ExecuteRebuilt
    \/ RebuildFromDictOrJson

Spec == Init /\ [][Next]_vars

(***************************************************************************)
(* Two calls at once on the same output path.  Each call first computes    *)
(* its output, then opens the path for writing (which empties the file and *)
(* puts the handle at offset 0), writes its output into the handle's       *)
(* buffer, and closes, which flushes the buffer to the file at the         *)
(* handle's offset.  The steps of the two calls interleave freely.         *)
(***************************************************************************)
Writers == {1, 2}
WriterOps == {"save_ast_as_json", "rebuild_from_dict_or_json"}

\* what a call is about to write: the JSON text of the extraction of a.py,
\* or the contents of a.py named by the file field of its structure
OutputOf(op, files) ==
    IF op = "save_ast_as_json" THEN get_ast_as_json(files, "a.py")
    ELSE ReadText(files, "a.py")

\* a file after buf is written at offset pos
Overlay(data, pos, buf) ==
    [i \in 1..(IF Len(data) > pos + Len(buf) THEN Len(data) ELSE pos + Len(buf)) |->
       IF i > pos /\ i <= pos + Len(buf) THEN buf[i - pos]
       ELSE IF i <= Len(data) THEN data[i] ELSE "NUL"]

Prepare(p) ==
    /\ procs[p].pc = "start"
    /\ \E r \in {OutputOf(procs[p].op, fs)} :
          procs' = [procs EXCEPT ![p].pc = IF IsRaise(r) THEN "raised" ELSE "ready",
                                 ![p].text = IF IsRaise(r) THEN <<>> ELSE r.v]
    /\ UNCHANGED <<fs, held, ret, last, calls>>

Open(p) ==
    /\ procs[p].pc = "ready"
    /\ fs' = [fs EXCEPT !["out"] = File(<<>>)]
    /\ procs' = [procs EXCEPT ![p].pc = "opened", ![p].pos = 0]
    /\ UNCHANGED <<held, ret, last, calls>>

Write(p) ==
    /\ procs[p].pc = "opened"
    /\ procs' = [procs EXCEPT ![p].pc = "written",
                              ![p].buffer = WriteNewlines(procs[p].text)]
    /\ UNCHANGED <<fs, held, ret, last, calls>>

Close(p) ==
    /\ procs[p].pc = "written"
    /\ fs' = [fs EXCEPT !["out"] =
                 File(Overlay(fs["out"].data, procs[p].pos, procs[p].buffer))]
    /\ procs' = [procs EXCEPT ![p].pc = "closed"]
    /\ last' = Call(procs[p].op, "a.py", "out", IntV(p))
    /\ UNCHANGED <<held, ret, calls>>

InitConc ==
    /\ fs \in {[p \in Paths |-> IF p = "a.py" THEN File(src) ELSE NoFile] :
                  src \in FlowSources}
    /\ procs \in [Writers -> {[pc |-> "start", op |-> o, text |-> <<>>,
                                pos |-> 0, buffer |-> <<>>] : o \in WriterOps}]
    /\ held = None
    /\ ret = None
    /\ last = NoCall
    /\ calls = 0

NextConc ==
    \E p \in Writers :
       \/ Prepare(p)
       \/ Open(p)
       \/ Write(p)
       \/ Close(p)

SpecConc == InitConc /\ [][NextConc]_vars

(***************************************************************************)
(* Extraction on its own: one call on each of the source files below.      *)
(***************************************************************************)
MaxLines == 3
MaxDepth == 5

\* the statements the short programs are written with
StmtChoices ==
    { <<"def", "f">>, <<"def", "f", "pass">>, <<"async def", "g">>, <<"class", "A">>,
      <<"pass">>, <<"DQ", "DQ">>, <<"DQ", "SP", "d", "DQ">> }

RECURSIVE ProgramsOfLen(_)
\* every program of n lines in which a line is indented at most one unit
\* deeper than the line before it
ProgramsOfLen(n) ==
    IF n = 0 THEN {<<>>}
    ELSE UNION { { Append(p, Line(k, st)) :
                     k \in 0..(IF p = <<>> THEN 0 ELSE p[Len(p)].ind + 1),
                     st \in StmtChoices } :
                 p \in ProgramsOfLen(n - 1) }

ShortPrograms == UNION {ProgramsOfLen(n) : n \in 0..MaxLines}

\* the headers the chains are written with, and the name each one defines
ChainKeywords == {"def", "class", "if"}
ChainHeader(kw) ==
    IF kw = "def" THEN <<"def", "f">>
    ELSE IF kw = "class" THEN <<"class", "A">> ELSE <<kw>>

RECURSIVE KeywordSeqs(_)
KeywordSeqs(n) ==
    IF n = 0 THEN {<<>>}
    ELSE {Append(ks, kw) : ks \in KeywordSeqs(n - 1), kw \in ChainKeywords}

\* a chain: each header nested in the one before it, every definition with a
\* docstring, "pass" innermost; after it, a function inside a with statement
Chain(ks) ==
    Concat([i \in 1..Len(ks) |->
              <<Line(i - 1, ChainHeader(ks[i]))>>
              \o (IF ks[i] \in DefKeywords
                  THEN <<Line(i, <<"DQ", "d", "SP", "DQ">>)>> ELSE <<>>)])
    \o <<Line(Len(ks), <<"pass">>),
         Line(0, <<"with">>), Line(1, <<"async def", "g", "pass">>)>>

Chains == {Chain(ks) : ks \in UNION {KeywordSeqs(n) : n \in 1..MaxDepth}}

\* two statements with a page break (a line holding a form feed) between
\* them, as in files laid out in pages
PagedPrograms ==
    {p \o <<Line(0, <<"FF">>)>> \o q : p, q \in ProgramsOfLen(1)}

ExtractSources ==
    {Render(p, <<"LF">>) : p \in ShortPrograms \cup Chains \cup PagedPrograms}

InitExtract ==
    /\ fs \in {[p \in Paths |-> IF p = "a.py" THEN File(src) ELSE NoFile] :
                  src \in ExtractSources}
    /\ held = None
    /\ ret = None
    /\ last = NoCall
    /\ calls = 1
    /\ procs = <<>>

NextExtract ==
    \/ GetAstAsDict
    \/ GetAstAsJson

SpecExtract == InitExtract /\ [][NextExtract]_vars

(***************************************************************************)
(* Rebuilding on its own: one call on each of the structures below, which  *)
(* are written by hand as a caller may write them.  An entry has a         *)
(* functionDefinition, a legacy defString, both or neither, and a          *)
(* startLine or none.                                                      *)
(***************************************************************************)
MaxEntries == 2
MaxStartLine == 1

\* the text fields of the entries
EntryShapes ==
    { <<[k |-> <<"functionDefinition">>, v |-> StrV(<<"raise", "ValueError">>)]>>,
      <<[k |-> <<"defString">>, v |-> StrV(<<"def", "f", "LF", "IND", "pass">>)]>>,
      <<[k |-> <<"functionDefinition">>, v |-> StrV(<<"raise", "SystemExit">>)],
        [k |-> <<"defString">>, v |-> StrV(<<"pass">>)]>>,
      <<[k |-> <<"functionDefinition">>, v |-> StrV(<<"def", "f">>)]>>,
      <<[k |-> <<"summary">>, v |-> ListV(<<>>)]>> }

\* an entry; start 0 stands for an entry without a startLine
Entry(shape, start) ==
    DictV(shape \o (IF start = 0 THEN <<>>
                    ELSE <<[k |-> <<"startLine">>, v |-> IntV(start)]>>))

Entries == {Entry(shape, start) : shape \in EntryShapes, start \in 0..MaxStartLine}

RECURSIVE EntrySeqs(_)
EntrySeqs(n) ==
    IF n = 0 THEN {<<>>}
    ELSE {Append(es, e) : es \in EntrySeqs(n - 1), e \in Entries}

\* the key of the i-th entry of a map of n: numbered upwards, or downwards
KeyName(i, n, down) == <<"k">> \o Decimal(IF down THEN n + 1 - i ELSE i)

\* a structure with a module map of the entries es
ModuleOf(es, down) ==
    DictV(<<[k |-> <<"summary">>, v |-> ListV(<<>>)],
            [k |-> <<"module">>,
             v |-> DictV([i \in 1..Len(es) |->
                            [k |-> KeyName(i, Len(es), down), v |-> es[i]]])]>>)

RebuildStructures ==
    {ModuleOf(es, down) : es \in UNION {EntrySeqs(n) : n \in 0..MaxEntries},
                          down \in BOOLEAN}
    \cup Entries

(***************************************************************************)
(* Texts a caller may pass where JSON text is expected.                    *)
(***************************************************************************)
\* JSON texts of two structures, compact and indented
ValidTexts ==
    {dumps(st, indent) :
        st \in {ModuleOf(<<Entry(<<[k |-> <<"functionDefinition">>,
                                    v |-> StrV(<<"raise", "ValueError">>)]>>, 1)>>, FALSE),
                Entry(<<[k |-> <<"defString">>,
                         v |-> StrV(<<"def", "f", "LF", "IND", "pass">>)]>>, 0)},
        indent \in BOOLEAN}

\* a JSON text cut short: every proper prefix of a valid text
Truncated == UNION {{SubSeq(t, 1, n) : n \in 0..(Len(t) - 1)} : t \in ValidTexts}

\* texts that break a rule of JSON: no JSON at all, a comma before "]", a
\* leading zero, single quotes, text after the value, a form feed as white
\* space, a line break inside a string, an unknown escape
Broken ==
    { <<"invalid", "SP", "json">>,
      <<"[", "1", ",", "]">>,
      <<"0", "1">>,
      <<"{", "SQ", "a", "SQ", ":", "SP", "1", "}">>,
      <<"{", "}", "SP", "x">>,
      <<"FF", "{", "}">>,
      <<"DQ", "LF", "DQ">>,
      <<"DQ", "BS", "x", "DQ">> }

\* texts that are JSON but for a constant that JSON does not have
WithConstants ==
    { <<"NaN">>,
      <<"[", "-Infinity", "]">>,
      <<"{", "DQ", "module", "DQ", ":", "SP", "{", "}", ",", "SP",
        "DQ", "k", "DQ", ":", "SP", "NaN", "}">>,
      <<"{", "DQ", "functionDefinition", "DQ", ":", "SP",
        "DQ", "raise", "ValueError", "DQ", ",", "SP",
        "DQ", "k", "DQ", ":", "SP", "Infinity", "}">> }

\* texts that are not well-formed JSON
NotJson == Truncated \cup Broken \cup WithConstants

\* JSON texts of values that are no structure
OddTexts ==
    { <<"null">>, <<"true">>, <<"3">>, <<"[", "]">>, <<"DQ", "module", "DQ">> }

GivenTexts == {StrV(t) : t \in ValidTexts \cup NotJson \cup OddTexts}

InitRebuild ==
    /\ fs = [p \in Paths |-> IF p = "out" THEN File(Leftover) ELSE NoFile]
    /\ held \in RebuildStructures \cup GivenTexts
    /\ ret = None
    /\ last = NoCall
    /\ calls = 1
    /\ procs = <<>>

NextRebuild ==
    \/ RebuildFromJson
    \/ ExecuteRebuilt
    \/ RebuildFromDictOrJson

SpecRebuild == InitRebuild /\ [][NextRebuild]_vars

(***************************************************************************)
(* The calls that write an output path, one call each: on an input file    *)
(* that is missing, that does not parse or that does, and on data that is  *)
(* broken text, JSON text, or a structure naming a file that exists or     *)
(* does not.                                                               *)
(***************************************************************************)
\* structures with a file field and a module map that has an entry
FiledStructures ==
    {DictV(<<[k |-> <<"file">>, v |-> StrV(<<name>>)],
             [k |-> <<"module">>,
              v |-> DictV(<<[k |-> <<"f">>,
                             v |-> Entry(<<[k |-> <<"functionDefinition">>,
                                            v |-> StrV(<<"pass">>)]>>, 1)]>>)]>>) :
        name \in Paths \cup {"missing.py"}}

InitWrite ==
    /\ fs \in {[p \in Paths |-> IF p = "a.py" THEN src ELSE out] :
                  src \in {NoFile, File(<<"def", "f", "LF">>),
                            File(<<"def", "f", "pass", "LF">>)},
                  out \in {NoFile, File(Leftover)}}
    /\ held \in FiledStructures
                \cup {StrV(t) : t \in Broken \cup WithConstants \cup ValidTexts}
    /\ ret = None
    /\ last = NoCall
    /\ calls = 1
    /\ procs = <<>>

NextWrite ==
    \/ SaveAstAsJson
    \/ RebuildFromDictOrJson

SpecWrite == InitWrite /\ [][NextWrite]_vars

(***************************************************************************)
(* What the source text says about nesting, read off the lines themselves: *)
(* the header a line belongs to is the nearest line before it that is      *)
(* indented less.                                                          *)
(***************************************************************************)
\* the text the last call found at its input path, and its lines
SourceRead == UniversalNewlines(last.pre[last.inp].data)
SourceLines == PhysicalLines(SourceRead)

\* the line of the header whose block line n is a direct statement of; 0 for
\* a statement of the top level
ParentLine(ls, n) ==
    LET above == {m \in 1..(n - 1) : ~IsBlank(ls[m]) /\ Indent(ls[m]) < Indent(ls[n])}
    IN IF above = {} THEN 0 ELSE CHOOSE m \in above : \A k \in above : k <= m

RECURSIVE NestingLevel(_, _)
\* 1 for a statement of the top level, one more for each enclosing header
NestingLevel(ls, n) ==
    IF ParentLine(ls, n) = 0 THEN 1 ELSE 1 + NestingLevel(ls, ParentLine(ls, n))

\* the lines that are headers with one of the keywords kws and direct
\* statements of the block of the header on line parent
ChildLines(ls, parent, kws) ==
    {n \in 1..Len(ls) : /\ ~IsBlank(ls[n])
                        /\ Stmt(ls[n])[1] \in kws
                        /\ ParentLine(ls, n) = parent}

\* the first statement of the block of the header on line n: the rest of the
\* line when the body is on the header's line, the next statement otherwise
FirstStatement(ls, n) ==
    IF IsInline(Stmt(ls[n])) THEN <<"pass">> ELSE Stmt(ls[NextLine(ls, n + 1)])

(***************************************************************************)
(* What a structure says: its records, each with the depth it is found at  *)
(* (1 for a value of the module map).                                      *)
(***************************************************************************)
StartLineOf(rec) == Get(rec, <<"startLine">>).v
EndLineOf(rec) == Get(rec, <<"endLine">>).v
FunctionsOf(rec) == Get(rec, <<"functions">>).v
ClassesOf(rec) == Get(rec, <<"classes">>).v
Range(seq) == {seq[i] : i \in 1..Len(seq)}

RECURSIVE RecordsUnder(_, _)
RecordsUnder(rec, depth) ==
    {[rec |-> rec, depth |-> depth]}
    \cup UNION {RecordsUnder(r, depth + 1) : r \in Range(FunctionsOf(rec))}
    \cup UNION {RecordsUnder(r, depth + 1) : r \in Range(ClassesOf(rec))}

AllRecords(unit) ==
    UNION {RecordsUnder(r, 1) : r \in Range(Values(Get(unit, <<"module">>)))}

\* a list of records holds exactly the definitions on the given lines, in
\* source order
HoldsInOrder(list, lines) ==
    /\ {StartLineOf(r) : r \in Range(list)} = lines
    /\ \A i, j \in 1..Len(list) : i < j => StartLineOf(list[i]) < StartLineOf(list[j])

\* the last call was an extraction that returned a structure
Extracted == last.op = "get_ast_as_dict" /\ IsDict(ret)

\* the top-level definitions a later top-level definition of the same name
\* replaces in the module map
Replaced(ls) ==
    {n \in ChildLines(ls, 0, DefKeywords) :
        \E m \in ChildLines(ls, 0, DefKeywords) :
           m > n /\ Stmt(ls[m])[2] = Stmt(ls[n])[2]}

\* below the module map: every record's lists hold the definitions directly
\* in its body, and every record sits as deep as its definition is nested
NestedMirrored(unit, ls) ==
    \A e \in AllRecords(unit) :
       /\ HoldsInOrder(FunctionsOf(e.rec),
                       ChildLines(ls, StartLineOf(e.rec), {"def", "async def"}))
       /\ HoldsInOrder(ClassesOf(e.rec),
                       ChildLines(ls, StartLineOf(e.rec), {"class"}))
       /\ e.depth = NestingLevel(ls, StartLineOf(e.rec))

\* the lines of the definitions that have a compound statement around them
RECURSIVE InCompound(_, _)
InCompound(ls, n) ==
    /\ ParentLine(ls, n) # 0
    /\ \/ Stmt(ls[ParentLine(ls, n)])[1] \in CompoundKeywords
       \/ InCompound(ls, ParentLine(ls, n))

\* C4 as stated: The structure mirrors the lexical nesting of the source: the
\* module map holds a record for a definition if and only if it is a direct
\* statement of the top level, each record's functions (classes) list holds,
\* in source order, exactly the functions (classes) that are direct
\* statements of its body, a definition nested d levels deep is found at
\* depth d, and a definition inside a compound statement is recorded nowhere.
C4_AsStated ==
    Extracted =>
       /\ {StartLineOf(r) : r \in Range(Values(Get(ret, <<"module">>)))}
             = ChildLines(SourceLines, 0, DefKeywords)
       /\ NestedMirrored(ret, SourceLines)
       /\ \A e \in AllRecords(ret) : ~InCompound(SourceLines, StartLineOf(e.rec))

\* C4 amended: as stated, except that of several top-level definitions with
\* the same name the module map holds a record for the last one only.
C4_Nesting ==
    Extracted =>
       /\ {StartLineOf(r) : r \in Range(Values(Get(ret, <<"module">>)))}
             = ChildLines(SourceLines, 0, DefKeywords) \ Replaced(SourceLines)
       /\ Len(Get(ret, <<"module">>).v)
             = Cardinality(ChildLines(SourceLines, 0, DefKeywords)
                           \ Replaced(SourceLines))
       /\ NestedMirrored(ret, SourceLines)
       /\ \A e \in AllRecords(ret) : ~InCompound(SourceLines, StartLineOf(e.rec))

\* a definition five levels deep was recorded at depth five, and a definition
\* inside a compound statement was left out
C4_Witness ==
    /\ Extracted
    /\ \E e \in AllRecords(ret) : e.depth = MaxDepth
    /\ \E n \in 1..Len(SourceLines) :
          /\ ~IsBlank(SourceLines[n])
          /\ Stmt(SourceLines[n])[1] \in DefKeywords
          /\ InCompound(SourceLines, n)

\* the text between the quotes of a string literal statement
LiteralText(st) == SubSeq(st, 2, Len(st) - 1)

\* C5: A record carries a docstring field if and only if the first statement
\* of the definition's body is a bare string literal, an empty literal
\* included, and the field's value is that literal's text.
C5_Docstring ==
    Extracted =>
       \A e \in AllRecords(ret) :
          LET first == FirstStatement(SourceLines, StartLineOf(e.rec)) IN
          /\ Has(e.rec, <<"docstring">>) <=> IsStringLiteral(first)
          /\ Has(e.rec, <<"docstring">>)
                => Get(e.rec, <<"docstring">>) = StrV(LiteralText(first))

\* C6 as stated: In everything extraction returns, every record at every
\* depth and the structure itself have startLine <= endLine, the structure
\* of an empty file included.
C6_AsStated ==
    Extracted =>
       /\ \A e \in AllRecords(ret) : StartLineOf(e.rec) <= EndLineOf(e.rec)
       /\ StartLineOf(ret) <= EndLineOf(ret)

\* C6 amended: every record at every depth has startLine <= endLine, and so
\* has the structure of every file that is not empty; the structure of an
\* empty file has startLine 1 and endLine 0.
C6_Spans ==
    Extracted =>
       /\ \A e \in AllRecords(ret) : StartLineOf(e.rec) <= EndLineOf(e.rec)
       /\ SourceRead # <<>> => StartLineOf(ret) <= EndLineOf(ret)
       /\ SourceRead = <<>> => StartLineOf(ret) = 1 /\ EndLineOf(ret) = 0

\* a file with a definition inside a definition, each spanning several lines
C6_Witness ==
    /\ Extracted
    /\ SourceRead # <<>>
    /\ \E e \in AllRecords(ret) :
          /\ e.depth >= 2
          /\ StartLineOf(e.rec) < EndLineOf(e.rec)
          /\ EndLineOf(e.rec) <= EndLineOf(ret)

(***************************************************************************)
(* Rebuilding                                                              *)
(***************************************************************************)
\* the last call was rebuild_from_json on a structure with a module map,
\* and it returned text
RebuiltFromModule ==
    /\ last.op = "rebuild_from_json"
    /\ IsDict(held)
    /\ Has(held, <<"module">>)
    /\ IsStr(ret)

\* the values of the module map, in map order
ModuleEntries == Values(Get(held, <<"module">>))

\* the place of the i-th entry in ascending order of startLine (0 when it
\* has none), entries with equal startLine staying in map order
Rank(defs, i) ==
    1 + Cardinality({j \in 1..Len(defs) :
                       \/ StartLineKey(defs[j]) < StartLineKey(defs[i])
                       \/ StartLineKey(defs[j]) = StartLineKey(defs[i]) /\ j < i})

\* the entries, each at its place
InOrder(defs) ==
    [k \in 1..Len(defs) |-> defs[CHOOSE i \in 1..Len(defs) : Rank(defs, i) = k]]

HasText(d) == Has(d, <<"functionDefinition">>) \/ Has(d, <<"defString">>)

\* the functionDefinition of an entry or, only when it has none, its defString
TextOf(d) ==
    IF Has(d, <<"functionDefinition">>) THEN Get(d, <<"functionDefinition">>).v
    ELSE Get(d, <<"defString">>).v

BlankLine == <<"LF", "LF">>

\* C2: For a structure with a module map, rebuild_from_json emits the map's
\* values in ascending startLine order, whatever the order they were
\* inserted in, two entries with equal startLine in their map order; the
\* keys of the map play no part.
C2_Order ==
    RebuiltFromModule =>
       LET placed == SelectSeq(InOrder(ModuleEntries), HasText) IN
       ret.v = Join(BlankLine, [k \in 1..Len(placed) |-> TextOf(placed[k])])

\* two entries inserted against their startLine order, and two with equal
\* startLine, all with different texts
C2_Witness ==
    /\ RebuiltFromModule
    /\ \E i, j \in 1..Len(ModuleEntries) :
          /\ i < j
          /\ StartLineKey(ModuleEntries[i]) > StartLineKey(ModuleEntries[j])
          /\ HasText(ModuleEntries[i]) /\ HasText(ModuleEntries[j])
          /\ TextOf(ModuleEntries[i]) # TextOf(ModuleEntries[j])
    /\ ret.v # <<>>

\* the one-to-one maps of 1..n onto itself
OneToOne(n) ==
    {p \in [1..n -> 1..n] : \A i, j \in 1..n : p[i] = p[j] => i = j}

\* text is the texts of the entries defs, one segment for each in some
\* order, a blank line between two segments and nothing else
OneSegmentEach(text, defs) ==
    \E p \in OneToOne(Len(defs)) :
       text = Join(BlankLine, [k \in 1..Len(defs) |-> TextOf(defs[p[k]])])

\* C7 as stated: For a structure with a module map, the output of
\* rebuild_from_json is one segment per map entry (its functionDefinition
\* or, only when that is absent, its defString), adjacent segments separated
\* by exactly "\n\n", nothing before the first or after the last.
C7_AsStated ==
    RebuiltFromModule =>
       /\ \A i \in 1..Len(ModuleEntries) : HasText(ModuleEntries[i])
       /\ OneSegmentEach(ret.v, SelectSeq(ModuleEntries, HasText))

\* C7 amended: as stated, for the map entries that have a functionDefinition
\* or a defString; an entry with neither contributes nothing, no segment
\* and no separator.
C7_Content ==
    RebuiltFromModule => OneSegmentEach(ret.v, SelectSeq(ModuleEntries, HasText))

\* a map with an entry that has both fields and an entry that has only the
\* legacy one
C7_Witness ==
    /\ RebuiltFromModule
    /\ \E i, j \in 1..Len(ModuleEntries) :
          /\ Has(ModuleEntries[i], <<"functionDefinition">>)
          /\ Has(ModuleEntries[i], <<"defString">>)
          /\ ~Has(ModuleEntries[j], <<"functionDefinition">>)
          /\ Has(ModuleEntries[j], <<"defString">>)
    /\ Len(ret.v) > Len(BlankLine)

(***************************************************************************)
(* Executing                                                               *)
(***************************************************************************)
\* the last call was execute_rebuilt, and the text it rebuilt failed to
\* compile or to run
ExecutionFailed ==
    /\ last.op = "execute_rebuilt"
    /\ IsStr(rebuild_from_json(last.arg.v))
    /\ IsRaise(CompileAndExec(rebuild_from_json(last.arg.v).v))

\* the failure of the rebuilt text
Failure == CompileAndExec(rebuild_from_json(last.arg.v).v)

\* the ExecutionError that carries the message of exc
Wrapped(exc) ==
    Raise("RuntimeError", <<"Error executing rebuilt source code: ">> \o Message(exc))

\* C3 as stated: Whenever the rebuilt text fails to compile or raises while
\* it runs, execute_rebuilt ends with RuntimeError carrying the message of
\* the failure, and never with the failure's own kind.
C3_AsStated ==
    ExecutionFailed => ret.t = "raise" /\ ret.v = Wrapped(Failure).v

\* C3 amended: as stated for every failure that is an Exception (a
\* SyntaxError of compile, a ValueError of the run, ...); a failure that is
\* not, such as SystemExit, reaches the caller as it is.
C3_Wrapped ==
    ExecutionFailed =>
       /\ ret.t = "raise"
       /\ IF KindOfRaise(Failure) = "SystemExit"
          THEN ret.v = Failure.v
          ELSE ret.v = Wrapped(Failure).v

\* a ValueError raised by the rebuilt text came back as RuntimeError
C3_Witness ==
    /\ ExecutionFailed
    /\ KindOfRaise(Failure) = "ValueError"
    /\ ret.t = "raise"
    /\ KindOfRaise(ret) = "RuntimeError"

(***************************************************************************)
(* The fallback of rebuild_from_dict_or_json                               *)
(***************************************************************************)
\* the last call was rebuild_from_dict_or_json on a structure without a
\* file field
FellBack ==
    /\ last.op = "rebuild_from_dict_or_json"
    /\ IsDict(held)
    /\ ~Has(held, <<"file">>)

\* C8: When the structure passed to rebuild_from_dict_or_json has no file
\* field, the call returns exactly rebuild_from_json of the structure, and
\* afterwards the output path holds exactly the returned text, whatever it
\* held before; so for a dictionary and so for JSON text.
C8_Fallback ==
    FellBack =>
       LET expected == rebuild_from_json(IF IsStr(last.arg) THEN last.arg.v
                                         ELSE dumps(last.arg, TRUE))
       IN IsStr(expected) =>
             /\ ret.t = "str" /\ ret.v = expected.v
             /\ fs[last.out] = File(ret.v)
             /\ \A p \in Paths \ {last.out} : fs[p] = last.pre[p]

\* JSON text was passed, and the text rebuilt from it replaced what the
\* output path held
C8_Witness ==
    /\ FellBack
    /\ IsStr(last.arg)
    /\ ret.t = "str" /\ ret.v # <<>>
    /\ last.pre[last.out].exists
    /\ last.pre[last.out].data # <<>>
    /\ fs[last.out].data = ret.v

(***************************************************************************)
(* The file flow                                                           *)
(***************************************************************************)
\* the structure the last call was given, decoded when it was given as text
GivenData == IF IsStr(last.arg) THEN loads(last.arg.v) ELSE last.arg

\* the last call was rebuild_from_dict_or_json on the structure extraction
\* returns for the file a.py as it is
RebuiltExtraction ==
    /\ last.op = "rebuild_from_dict_or_json"
    /\ IsDict(GivenData)
    /\ Has(GivenData, <<"file">>)
    /\ IsDict(get_ast_as_dict(last.pre, "a.py"))
    /\ GivenData.v = get_ast_as_dict(last.pre, "a.py").v

\* C1: For a source file F that extracts by path, the call
\* rebuild_from_dict_or_json(extract(F), outputPath) returns text identical,
\* byte for byte, to the contents of F and leaves outputPath holding
\* exactly those bytes.
C1_ExactCopy ==
    RebuiltExtraction =>
       /\ ret.t = "str"
       /\ ret.v = last.pre["a.py"].data
       /\ fs[last.out].data = last.pre["a.py"].data

\* the last call was a save_ast_as_json that succeeded
Saved == last.op = "save_ast_as_json" /\ ret.t = "none"

C9_LastWriterWins ==
    (procs # <<>> /\ \A p \in Writers : procs[p].pc = "closed")
       => fs["out"].data = procs[last.arg.v].buffer

(***************************************************************************)
(* The span of the whole file                                              *)
(***************************************************************************)
\* the number of lines of a text: its physical lines, a final line ending
\* opening no further line
LineCount(text) ==
    LET ls == PhysicalLines(text) IN
    IF ls[Len(ls)] = <<>> THEN Len(ls) - 1 ELSE Len(ls)

\* C11: For every source text that extracts, the structure has startLine 1
\* and endLine equal to the number of lines of the text; for the empty text
\* the module map is empty, startLine is 1 and endLine is 0.
C11_UnitSpan ==
    Extracted =>
       /\ StartLineOf(ret) = 1
       /\ EndLineOf(ret) = LineCount(SourceRead)
       /\ SourceRead = <<>> => Get(ret, <<"module">>) = DictV(<<>>) /\ EndLineOf(ret) = 0

(***************************************************************************)
(* Text that is not JSON                                                   *)
(***************************************************************************)
\* the last call was op on a text that is not well-formed JSON
GivenNotJson(op) ==
    /\ last.op = op
    /\ IsStr(last.arg)
    /\ last.arg.v \in NotJson

DecodeError == ret.t = "raise" /\ KindOfRaise(ret) = "JSONDecodeError"

\* C12 as stated: rebuild_from_json applied to any text that is not
\* well-formed JSON fails with JSONDecodeError and returns no text.
C12_AsStated == GivenNotJson("rebuild_from_json") => DecodeError

\* C12 amended: as stated for the texts that are not well-formed JSON even
\* with NaN, Infinity and -Infinity admitted as numbers; a text that is
\* JSON but for these constants is decoded like JSON text.
C12_Malformed ==
    GivenNotJson("rebuild_from_json") =>
       IF last.arg.v \in WithConstants THEN ~DecodeError ELSE DecodeError

\* a JSON text cut short after its first half was refused
C12_Witness ==
    /\ GivenNotJson("rebuild_from_json")
    /\ last.arg.v \in Truncated
    /\ Len(last.arg.v) > 10
    /\ DecodeError

(***************************************************************************)
(* A file that is missing                                                  *)
(***************************************************************************)
\* the calls that read the file at their input path
Readers == {"get_ast_as_dict", "get_ast_as_json", "save_ast_as_json",
            "load_ast_from_json"}

\* the last call was one of them, on a path that did not exist
MissingInput == last.op \in Readers /\ ~last.pre[last.inp].exists

\* C13: get_ast_as_dict, get_ast_as_json, save_ast_as_json and
\* load_ast_from_json, called on a path that does not exist, fail with
\* FileNotFoundError, which reaches the caller as it was raised; nothing is
\* read again and no file is touched.
C13_Missing ==
    MissingInput =>
       /\ ret = Raise("FileNotFoundError", <<last.inp>>)
       /\ fs = last.pre

\* after earlier calls, a save whose input path does not exist failed
C13_Witness ==
    /\ MissingInput
    /\ last.op = "save_ast_as_json"
    /\ last.inp # last.out
    /\ calls < MaxCalls - 1
    /\ KindOfRaise(ret) = "FileNotFoundError"

(***************************************************************************)
(* What extraction leaves alone                                            *)
(***************************************************************************)
\* C15: get_ast_as_dict and get_ast_as_json, whether they return or raise,
\* leave every file as it was and create none; save_ast_as_json changes no
\* file but the one at its output path.
C15_Frame ==
    /\ last.op \in {"get_ast_as_dict", "get_ast_as_json"} => fs = last.pre
    /\ last.op = "save_ast_as_json"
          => \A p \in Paths \ {last.out} : fs[p] = last.pre[p]

\* after earlier calls, an extraction failed on a path that does not exist,
\* and the path still does not exist
C15_Witness ==
    /\ last.op = "get_ast_as_dict"
    /\ IsRaise(ret)
    /\ calls < MaxCalls - 1
    /\ ~fs[last.inp].exists
    /\ fs = last.pre

(***************************************************************************)
(* Top-level definitions of one name                                       *)
(***************************************************************************)
\* the lines of the top-level definitions of a name
DefinedAt(ls, name) ==
    {n \in ChildLines(ls, 0, DefKeywords) : Stmt(ls[n])[2] = name}

\* the names that two or more top-level definitions share
Collisions(ls) == {name \in Names : Cardinality(DefinedAt(ls, name)) >= 2}

\* the last call was an extraction of a file that parses and has such names
ExtractedCollision ==
    /\ last.op = "get_ast_as_dict"
    /\ parse(SourceRead).ok
    /\ Collisions(SourceLines) # {}

\* C16: When two or more top-level definitions share a name, extraction
\* raises no error, the module map has exactly one entry under the name, its
\* record is that of the last of them in source order, and the earlier ones
\* appear nowhere in the structure.
C16_KeepsLast ==
    ExtractedCollision =>
       /\ IsDict(ret)
       /\ \A name \in Collisions(SourceLines) :
             LET module == Get(ret, <<"module">>)
                 lines == DefinedAt(SourceLines, name)
                 final == CHOOSE n \in lines : \A m \in lines : m <= n
             IN
             /\ Cardinality({i \in 1..Len(module.v) : module.v[i].k = <<name>>}) = 1
             /\ StartLineOf(Get(module, <<name>>)) = final
             /\ Get(module, <<name>>)
                   = process_node(CHOOSE node \in Range(parse(SourceRead).tree.body) :
                                     node.lineno = final)
             /\ \A e \in AllRecords(ret) : StartLineOf(e.rec) \notin lines \ {final}

\* three definitions of one name, and the record of the third in the map
C16_Witness ==
    /\ ExtractedCollision
    /\ IsDict(ret)
    /\ \E name \in Collisions(SourceLines) :
          /\ Cardinality(DefinedAt(SourceLines, name)) = 3
          /\ StartLineOf(Get(Get(ret, <<"module">>), <<name>>)) = 3

(***************************************************************************)
(* A call that fails before it writes                                      *)
(***************************************************************************)
\* the last call was one that writes an output path, and it failed for one
\* of these reasons: the input file is missing or does not parse, the data
\* is text that is not JSON, the file the data names cannot be read
FailedBeforeWrite ==
    /\ \/ /\ last.op = "save_ast_as_json"
          /\ IsRaise(ret)
          /\ KindOfRaise(ret) \in {"FileNotFoundError", "SyntaxError"}
       \/ /\ last.op = "rebuild_from_dict_or_json"
          /\ IsRaise(ret)
          /\ KindOfRaise(ret) \in {"JSONDecodeError", "FileNotFoundError"}

\* C17: If save_ast_as_json fails because its input is missing or does not
\* parse, or rebuild_from_dict_or_json fails because its data is malformed
\* JSON text or the file named by the file field cannot be read, the output
\* path is exactly as it was before the call: not created, not emptied, not
\* changed.
C17_Untouched ==
    FailedBeforeWrite =>
       /\ fs[last.out].exists = last.pre[last.out].exists
       /\ fs[last.out].data = last.pre[last.out].data

\* a save failed on a file that does not parse, and the output path holds
\* what it held
C17_Witness ==
    /\ FailedBeforeWrite
    /\ last.op = "save_ast_as_json"
    /\ KindOfRaise(ret) = "SyntaxError"
    /\ last.inp # last.out
    /\ fs[last.out] = File(Leftover)

(***************************************************************************)
(* The exact copy after the file has changed                               *)
(***************************************************************************)
\* the path the file field of the given structure names
NamedFile == Get(GivenData, <<"file">>).v[1]

\* the last call was rebuild_from_dict_or_json on a structure whose file
\* field names a file that exists
RebuiltByFile ==
    /\ last.op = "rebuild_from_dict_or_json"
    /\ IsDict(GivenData)
    /\ Has(GivenData, <<"file">>)
    /\ last.pre[NamedFile].exists

\* C18: Whenever the structure has a file field, rebuild_from_dict_or_json
\* returns and writes the content the named file holds at the time of the
\* call, whatever the module map says: after a change of the file since the
\* extraction, the result is the new content and not the extracted one.
C18_ReadsNow ==
    RebuiltByFile =>
       /\ ret.t = "str"
       /\ ret.v = last.pre[NamedFile].data
       /\ fs[last.out].data = last.pre[NamedFile].data

\* C18 up to line endings: the text returned and written is the content of
\* the named file at the time of the call as text mode reads and writes it.
C18_ReadsNowAsText ==
    RebuiltByFile =>
       /\ ret.t = "str"
       /\ ret.v = UniversalNewlines(last.pre[NamedFile].data)
       /\ fs[last.out].data = WriteNewlines(ret.v)

\* the named file was overwritten after the extraction, and the rebuild
\* returned what it holds now, which the module map does not
C18_Changed ==
    /\ RebuiltByFile
    /\ IsDict(held)
    /\ NamedFile = "a.py"
    /\ Get(held, <<"module">>).v # <<>>
    /\ loads(last.pre["a.py"].data) = held
    /\ ret.t = "str"
    /\ ret.v = last.pre["a.py"].data

(***************************************************************************)
(* Executing text that is not JSON                                         *)
(***************************************************************************)
ExecutionError == ret.t = "raise" /\ KindOfRaise(ret) = "RuntimeError"

\* C19 as stated: execute_rebuilt applied to text that is not well-formed
\* JSON fails with JSONDecodeError, not with RuntimeError, before anything
\* is compiled or executed; only failures of the compile and execute steps
\* come back as RuntimeError.
C19_AsStated ==
    /\ GivenNotJson("execute_rebuilt") => DecodeError
    /\ (last.op = "execute_rebuilt" /\ ExecutionError) => ExecutionFailed

\* C19 amended: as stated for the texts that are not well-formed JSON even
\* with NaN, Infinity and -Infinity admitted as numbers; a text that is
\* JSON but for these constants is decoded, and what is rebuilt from it is
\* compiled and executed like that of JSON text.
C19_NotWrapped ==
    /\ GivenNotJson("execute_rebuilt") =>
          IF last.arg.v \in WithConstants
          THEN ~DecodeError
          ELSE DecodeError
    /\ (last.op = "execute_rebuilt" /\ ExecutionError) => ExecutionFailed

\* a JSON text cut short after its first half was refused by execute_rebuilt
\* with the decoder's own error
C19_Witness ==
    /\ GivenNotJson("execute_rebuilt")
    /\ last.arg.v \in Truncated
    /\ Len(last.arg.v) > 10
    /\ DecodeError
    /\ ~ExecutionError

====
